---- MODULE Spec2Model ----
(***************************************************************************)
(* A model of the coffee-shop backend, src/backend/src/api.py: five Flask  *)
(* routes over one table of drinks, each request handled synchronously.    *)
(* The table (database/models.py) and the token check (auth/auth.py) are   *)
(* imported by api.py; they are modelled as the design document describes  *)
(* them in its sections 3 (data model) and 4.2 (authorization).            *)
(***************************************************************************)
EXTENDS Integers, Sequences, FiniteSets, TLC

VARIABLES
    drinks,         \* the drinks table: id -> [title, recipe (serialized text)]
    drinks_before,  \* history: the table as the request being served found it
    request,        \* the request being served, NoRequest between requests
    response        \* the response given to it

vars == <<drinks, drinks_before, request, response>>

(***************************************************************************)
(* Bounds of the model.                                                    *)
(***************************************************************************)
MaxId == 3      \* ids are 1..MaxId; an insert that would pass it is not taken

(***************************************************************************)
(* Python values.  An optional value (None or a value) is a sequence of    *)
(* length 0 or 1.  A JSON scalar in a response keeps its Python type, so   *)
(* that the boolean True and the string 'True' differ.                     *)
(***************************************************************************)
None == <<>>
Some(v) == <<v>>

PyBool(b) == [kind |-> "bool", text |-> IF b THEN "True" ELSE "False"]
PyStr(s) == [kind |-> "str", text |-> s]

(***************************************************************************)
(* Request inputs.                                                         *)
(***************************************************************************)
Ingredient(n, c, p) == [name |-> n, color |-> c, parts |-> p]

Titles == {"", "Latte", "Mocha", "Cortado"}

Recipes ==
    {<<>>,
     <<Ingredient("milk", "white", 1)>>,
     <<Ingredient("coffee", "brown", 2), Ingredient("milk", "white", 1)>>}

\* request.get_json(): None, or a dict whose 'title' and 'recipe' may be missing
Bodies ==
    {None}
    \cup {Some([title |-> t, recipe |-> r]) :
            t \in {None} \cup {Some(x) : x \in Titles},
            r \in {None} \cup {Some(x) : x \in Recipes}}

DrinkIds == 1..MaxId

NoToken == [kind |-> "none", permissions |-> {}]
BadToken == [kind |-> "invalid", permissions |-> {}]
ValidToken(P) == [kind |-> "valid", permissions |-> P]

AllPermissions ==
    {"get:drinks-detail", "post:drinks", "patch:drinks", "delete:drinks"}

\* no token, a token that does not verify, and valid tokens: one with no
\* permission, the barista's, the manager's, and one with all but the barista's
Tokens ==
    {NoToken, BadToken, ValidToken({}), ValidToken({"get:drinks-detail"}),
     ValidToken(AllPermissions), ValidToken(AllPermissions \ {"get:drinks-detail"})}

Request(m, p, tok, id, b) ==
    [method |-> m, path |-> p, token |-> tok, drink_id |-> id, body |-> b]

(***************************************************************************)
(* json.dumps / json.loads on a recipe.  The serialized text is a sequence *)
(* of tokens: "[", then "{" name color parts "}" per ingredient, then "]", *)
(* the number written in decimal.                                          *)
(***************************************************************************)
ParseInt(s) == CHOOSE n \in 0..9 : ToString(n) = s

RECURSIVE json_dumps_items(_)
json_dumps_items(recipe) ==
    IF recipe = <<>> THEN <<>>
    ELSE <<"{", Head(recipe).name, Head(recipe).color,
           ToString(Head(recipe).parts), "}">>
         \o json_dumps_items(Tail(recipe))

json_dumps_drop_last(recipe) ==
    <<"[">> \o json_dumps_items(SubSeq(recipe, 1, Len(recipe) - 1)) \o <<"]">>

json_dumps(recipe) == <<"[">> \o json_dumps_items(recipe) \o <<"]">>

json_loads(text) ==
    [i \in 1..((Len(text) - 2) \div 5) |->
        Ingredient(text[5 * i - 2], text[5 * i - 1], ParseInt(text[5 * i]))]

(***************************************************************************)
(* The Drink model: one table, title unique, the recipe stored as text.    *)
(***************************************************************************)
Max(S) == CHOOSE x \in S : \A y \in S : y <= x

\* the id the database gives a new row: one past the largest in the table
NextId(table) == IF DOMAIN table = {} THEN 1 ELSE Max(DOMAIN table) + 1

\* the table's unique constraint on title, for a row written under id
TitleTaken(table, id, title) ==
    \E other \in DOMAIN table : other # id /\ table[other].title = title

Drink(title, recipe) == [title |-> title, recipe |-> recipe]

\* session.add + commit: the table with the row in it
Drink_insert(table, drink) ==
    [id \in DOMAIN table \cup {NextId(table)} |->
        IF id \in DOMAIN table THEN table[id] ELSE drink]

\* commit of a changed row
Drink_update(table, id, drink) == [table EXCEPT ![id] = drink]

\* session.delete + commit
Drink_delete(table, id) == [other \in DOMAIN table \ {id} |-> table[other]]

Drink_long(id, drink) ==
    [id |-> id, title |-> drink.title, recipe |-> json_loads(drink.recipe)]

Drink_short(id, drink) ==
    [id |-> id, title |-> drink.title,
     recipe |-> [i \in 1..Len(json_loads(drink.recipe)) |->
                    [color |-> json_loads(drink.recipe)[i].color,
                     parts |-> json_loads(drink.recipe)[i].parts]]]

(***************************************************************************)
(* Queries of the route layer.                                             *)
(***************************************************************************)
RECURSIVE SortedIds(_, _)
SortedIds(S, descending) ==
    IF S = {} THEN <<>>
    ELSE LET m == IF descending THEN Max(S)
                  ELSE CHOOSE x \in S : \A y \in S : x <= y
         IN <<m>> \o SortedIds(S \ {m}, descending)

query_all_descending(table) == SortedIds(DOMAIN table, TRUE)

\* Drink.query.order_by(Drink.id).all(): the rows' ids, ascending
query_all(table) == SortedIds(DOMAIN table, FALSE)

query_first(table, drink_id) ==
    IF DOMAIN table = {} THEN None ELSE Some(query_all(table)[1])

\* Drink.query.filter(Drink.id == drink_id).one_or_none(): None or the id
query_by_id(table, drink_id) ==
    IF drink_id \in DOMAIN table THEN Some(drink_id) ELSE None

(***************************************************************************)
(* Responses.  A JSON body's keys are optional values: None when the key   *)
(* is not in the body.                                                     *)
(***************************************************************************)
Response(status, success, error, message, listed, deleted) ==
    [status |-> status, success |-> success, error |-> error,
     message |-> message, drinks |-> listed, delete |-> deleted]

NoRequest == Request("", "", NoToken, 0, None)
NoResponse == Response(0, PyStr(""), None, None, None, None)

\* jsonify({'success': success, 'drinks': listed}), status 200
jsonify_drinks(success, listed) ==
    Response(200, success, None, None, Some(listed), None)

\* jsonify({'success': True, 'delete': drink_id}), status 200
jsonify_delete(success, drink_id) ==
    Response(200, success, None, None, None, Some(drink_id))

\* @app.errorhandler(422)
unprocessable == Response(422, PyBool(FALSE), Some(422), Some("unprocessable"), None, None)

\* @app.errorhandler(404)
resource_not_found ==
    Response(404, PyBool(FALSE), Some(404), Some("resource not found"), None, None)

\* @app.errorhandler(AuthError)
autherror(status_code, error) ==
    Response(status_code, PyBool(FALSE), Some(status_code), Some(error), None, None)

\* no handler is registered for anything else: Flask's own 500 page, no JSON
internal_server_error == Response(500, PyStr(""), None, None, None, None)

(***************************************************************************)
(* The outcome of running a view function: it returns a response, or an    *)
(* exception leaves it.  table is the drinks table the run leaves behind.  *)
(***************************************************************************)
Return(table, resp) ==
    [exc |-> "", status_code |-> 0, error |-> "", table |-> table, resp |-> resp]

Raise(exc, status_code, error, table) ==
    [exc |-> exc, status_code |-> status_code, error |-> error,
     table |-> table, resp |-> NoResponse]

\* abort(code): werkzeug raises the HTTPException of that code
abort(code, table) ==
    Raise(IF code = 404 THEN "NotFound" ELSE "UnprocessableEntity", code, "", table)

\* except Exception as e: print(e); abort(422).  HTTPException is an Exception,
\* so an abort(404) raised inside the try block is caught here as well.
except_Exception_abort_422(outcome, table) ==
    IF outcome.exc # "" THEN abort(422, table) ELSE outcome

\* Flask hands an exception that left the view to its registered error handler
handle_exception(outcome) ==
    IF outcome.exc = "" THEN outcome.resp
    ELSE IF outcome.exc = "UnprocessableEntity" THEN unprocessable
    ELSE IF outcome.exc = "NotFound" THEN resource_not_found
    ELSE IF outcome.exc = "AuthError"
         THEN autherror(outcome.status_code, outcome.error)
    ELSE internal_server_error

(***************************************************************************)
(* Authorization: @requires_auth(permission) around a view.                *)
(***************************************************************************)
check_permissions(permission, token) ==
    IF token.kind = "none" THEN Raise("AuthError", 401, "authorization_header_missing", <<>>)
    ELSE IF token.kind = "invalid" THEN Raise("AuthError", 401, "invalid_token", <<>>)
    ELSE IF permission \notin token.permissions
         THEN Raise("AuthError", 403, "unauthorized", <<>>)
    ELSE Return(<<>>, NoResponse)

requires_auth(permission, token, table, outcome) ==
    IF check_permissions(permission, token).exc # ""
    THEN [check_permissions(permission, token) EXCEPT !.table = table]
    ELSE outcome

\* the permission each route names in its @requires_auth decorator
get_drinks_detail_permission == "get:drinks-detail"
create_drinks_permission == "post:drinks"
update_drink_permission == "patch:drinks"
delete_drink_permission_of_detail == "get:drinks-detail"
delete_drink_permission == "delete:drinks"

(***************************************************************************)
(* Python truthiness of what body.get(key, None) returned.                 *)
(***************************************************************************)
truthy_title(opt) == opt # None /\ opt[1] # ""
truthy_recipe(opt) == opt # None /\ opt[1] # <<>>

(***************************************************************************)
(* The view functions: the outcome of each on a table.                     *)
(***************************************************************************)
\* 'success': 'True' in get_drinks
get_drinks_success == PyStr("True")

\* [drink.short() for drink in data]
short_list(table) ==
    [i \in 1..Len(query_all(table)) |->
        Drink_short(query_all(table)[i], table[query_all(table)[i]])]

\* [drink.long() for drink in data]
long_list(table) ==
    [i \in 1..Len(query_all(table)) |->
        Drink_long(query_all(table)[i], table[query_all(table)[i]])]

get_drinks_view(table) ==
    except_Exception_abort_422(
        Return(table, jsonify_drinks(get_drinks_success, short_list(table))),
        table)

get_drinks_detail_view(table) ==
    except_Exception_abort_422(
        Return(table, jsonify_drinks(PyBool(TRUE), long_list(table))),
        table)

create_accepts_any_title(title, recipe) == title # None /\ truthy_recipe(recipe)

\* if new_drink_title and new_drink_recipe
create_accepts(title, recipe) == truthy_title(title) /\ truthy_recipe(recipe)

create_drinks_view(table, body) ==
    IF body = None THEN abort(422, table)
    ELSE
      LET new_drink_title == body[1].title
          new_drink_recipe == body[1].recipe
          new_drink == Drink(new_drink_title[1], json_dumps(new_drink_recipe[1]))
      IN except_Exception_abort_422(
            IF create_accepts(new_drink_title, new_drink_recipe)
            THEN IF TitleTaken(table, NextId(table), new_drink.title)
                 THEN Raise("IntegrityError", 0, "", table)   \* new_drink.insert()
                 ELSE Return(Drink_insert(table, new_drink),
                             jsonify_drinks(PyBool(TRUE),
                                 <<Drink_long(NextId(table), new_drink)>>))
            ELSE abort(422, table),
            table)

patched_title_not_none(title, updated_drink_title) ==
    IF updated_drink_title # None THEN updated_drink_title[1] ELSE title

\* if updated_drink_title: drink.title = updated_drink_title
patched_title(title, updated_drink_title) ==
    IF truthy_title(updated_drink_title) THEN updated_drink_title[1] ELSE title

patched_recipe_or_empty(recipe, updated_drink_recipe) ==
    IF truthy_recipe(updated_drink_recipe)
    THEN json_dumps(updated_drink_recipe[1]) ELSE json_dumps(<<>>)

\* if updated_drink_recipe: drink.recipe = json.dumps(updated_drink_recipe)
patched_recipe(recipe, updated_drink_recipe) ==
    IF truthy_recipe(updated_drink_recipe)
    THEN json_dumps(updated_drink_recipe[1]) ELSE recipe

update_drink_view(table, drink_id, body) ==
    LET drink == query_by_id(table, drink_id)
        id == drink[1]
        updated == Drink(patched_title(table[id].title, body[1].title),
                         patched_recipe(table[id].recipe, body[1].recipe))
    IN except_Exception_abort_422(
          IF drink = None
          THEN Raise("AttributeError", 0, "", table)      \* print(drink.long())
          ELSE IF drink = None THEN abort(404, table)     \* if drink is None
          ELSE IF body = None
          THEN Raise("AttributeError", 0, "", table)      \* body.get('title', None)
          ELSE IF TitleTaken(table, id, updated.title)
          THEN Raise("IntegrityError", 0, "", table)      \* drink.update()
          ELSE Return(Drink_update(table, id, updated),
                      jsonify_drinks(PyBool(TRUE), <<Drink_long(id, updated)>>)),
          table)

delete_drink_view(table, drink_id) ==
    LET drink == query_by_id(table, drink_id)
    IN except_Exception_abort_422(
          IF drink = None THEN abort(404, table)
          ELSE Return(Drink_delete(table, drink[1]),
                      jsonify_delete(PyBool(TRUE), drink_id)),
          table)

(***************************************************************************)
(* The routes: one action per request.                                     *)
(***************************************************************************)
get_drinks(token) ==
    /\ request = NoRequest
    /\ \E outcome \in
            {get_drinks_view(drinks)} :
          /\ request' = Request("GET", "/drinks", token, 0, None)
          /\ response' = handle_exception(outcome)
          /\ drinks' = outcome.table
          /\ drinks_before' = drinks

get_drinks_detail(token) ==
    /\ request = NoRequest
    /\ \E outcome \in
            {requires_auth(get_drinks_detail_permission, token, drinks,
                                      get_drinks_detail_view(drinks))} :
          /\ request' = Request("GET", "/drinks-detail", token, 0, None)
          /\ response' = handle_exception(outcome)
          /\ drinks' = outcome.table
          /\ drinks_before' = drinks

create_drinks(token, body) ==
    /\ request = NoRequest
    /\ \E outcome \in
            {requires_auth(create_drinks_permission, token, drinks,
                                      create_drinks_view(drinks, body))} :
          /\ DOMAIN outcome.table \subseteq DrinkIds   \* the model's cap on ids
          /\ request' = Request("POST", "/drinks", token, 0, body)
          /\ response' = handle_exception(outcome)
          /\ drinks' = outcome.table
          /\ drinks_before' = drinks

update_drink(token, drink_id, body) ==
    /\ request = NoRequest
    /\ \E outcome \in
            {requires_auth(update_drink_permission, token, drinks,
                                      update_drink_view(drinks, drink_id, body))} :
          /\ request' = Request("PATCH", "/drinks/<id>", token, drink_id, body)
          /\ response' = handle_exception(outcome)
          /\ drinks' = outcome.table
          /\ drinks_before' = drinks

delete_drink(token, drink_id) ==
    /\ request = NoRequest
    /\ \E outcome \in
            {requires_auth(delete_drink_permission, token, drinks,
                                      delete_drink_view(drinks, drink_id))} :
          /\ request' = Request("DELETE", "/drinks/<id>", token, drink_id, None)
          /\ response' = handle_exception(outcome)
          /\ drinks' = outcome.table
          /\ drinks_before' = drinks

\* The response is sent and Flask pops the request context: the request and
\* its response are gone, the table stays.  Requests are served one at a time.
end_of_request ==
    /\ request # NoRequest
    /\ request' = NoRequest
    /\ response' = NoResponse
    /\ drinks_before' = drinks
    /\ UNCHANGED drinks

Init ==
    /\ drinks = <<>>
    /\ drinks_before = <<>>
    /\ request = NoRequest
    /\ response = NoResponse

Next ==
    \/ \E token \in Tokens : get_drinks(token)
    \/ \E token \in Tokens : get_drinks_detail(token)
    \/ \E token \in Tokens, body \in Bodies : create_drinks(token, body)
    \/ \E token \in Tokens, drink_id \in DrinkIds, body \in Bodies :
          update_drink(token, drink_id, body)
    \/ \E token \in Tokens, drink_id \in DrinkIds : delete_drink(token, drink_id)
    \/ end_of_request

Spec == Init /\ [][Next]_vars

(***************************************************************************)
(* Vocabulary of the properties: all are about the last request, the table *)
(* it found (drinks_before), the table it left (drinks) and its response.  *)
(***************************************************************************)
Holds(permission) ==
    request.token.kind = "valid" /\ permission \in request.token.permissions

Is(method, path) == request.method = method /\ request.path = path

TitlesOf(table) == {table[id].title : id \in DOMAIN table}

\* what GET /drinks answers on a table, and what GET /drinks-detail answers
\* to a caller allowed to ask
Listing(table) == handle_exception(get_drinks_view(table))
DetailListing(table) == handle_exception(get_drinks_detail_view(table))

ListedIds(resp) == [i \in 1..Len(resp.drinks[1]) |-> resp.drinks[1][i].id]
ListedTitles(resp) == {resp.drinks[1][i].title : i \in 1..Len(resp.drinks[1])}

OthersUnchanged(id) ==
    \A other \in DOMAIN drinks_before \ {id} :
        other \in DOMAIN drinks /\ drinks[other] = drinks_before[other]

\* the permission the documentation of the routes gives each protected one
RequiredPermission ==
    IF Is("GET", "/drinks-detail") THEN "get:drinks-detail"
    ELSE IF Is("POST", "/drinks") THEN "post:drinks"
    ELSE IF Is("PATCH", "/drinks/<id>") THEN "patch:drinks"
    ELSE IF Is("DELETE", "/drinks/<id>") THEN "delete:drinks"
    ELSE ""

\* ids lists the rows of table once each, in ascending order
Ascending(ids) == \A i, j \in 1..Len(ids) : i < j => ids[i] < ids[j]

ListsTable(ids, table) ==
    /\ Ascending(ids)
    /\ {ids[i] : i \in 1..Len(ids)} = DOMAIN table
    /\ Len(ids) = Cardinality(DOMAIN table)

\* C1: PATCH /drinks/<id> by a caller holding 'patch:drinks', for an id not in
\* the table, is answered 404 (success False, error 404, 'resource not found')
\* and leaves the table unchanged.
C1_PatchMissingIdIs404 ==
    (Is("PATCH", "/drinks/<id>") /\ Holds("patch:drinks")
        /\ request.drink_id \notin DOMAIN drinks_before)
    => /\ response.status = 404
       /\ response.success = PyBool(FALSE)
       /\ response.error = Some(404)
       /\ response.message = Some("resource not found")
       /\ drinks = drinks_before

\* C2: DELETE /drinks/<id> by a caller holding 'delete:drinks', for an id not
\* in the table, is answered 404 and leaves the table unchanged.
C2_DeleteMissingIdIs404 ==
    (Is("DELETE", "/drinks/<id>") /\ Holds("delete:drinks")
        /\ request.drink_id \notin DOMAIN drinks_before)
    => /\ response.status = 404
       /\ drinks = drinks_before

\* C3: a POST /drinks by a caller holding 'post:drinks', with a non-empty title
\* no drink uses and a non-empty recipe, succeeds; a successful POST answers
\* with exactly one drink, carrying the title and the recipe of the request;
\* GET /drinks then lists that title, and a title GET /drinks listed stops
\* being listed only by a successful DELETE of its drink or a successful PATCH
\* that retitles it.
C3_CreatedDrinkIsListed ==
    /\ (Is("POST", "/drinks") /\ Holds("post:drinks") /\ request.body # None)
       => LET body == request.body[1]
          IN (truthy_title(body.title) /\ truthy_recipe(body.recipe)
                /\ body.title[1] \notin TitlesOf(drinks_before))
             => response.status = 200
    /\ (Is("POST", "/drinks") /\ response.status = 200)
       => /\ response.drinks # None
          /\ Len(response.drinks[1]) = 1
          /\ response.drinks[1][1].title = request.body[1].title[1]
          /\ response.drinks[1][1].recipe = request.body[1].recipe[1]
          /\ request.body[1].title[1] \in ListedTitles(Listing(drinks))
    /\ \A t \in ListedTitles(Listing(drinks_before)) \ ListedTitles(Listing(drinks)) :
          /\ response.status = 200
          /\ request.drink_id \in DOMAIN drinks_before
          /\ drinks_before[request.drink_id].title = t
          /\ \/ Is("DELETE", "/drinks/<id>")
             \/ /\ Is("PATCH", "/drinks/<id>")
                /\ request.body[1].title # None
                /\ request.body[1].title[1] # t

C3_Witness ==
    /\ Is("POST", "/drinks")
    /\ response.status = 200
    /\ drinks_before # <<>>
    /\ Len(request.body[1].recipe[1]) = 2

\* C4: a successful PATCH /drinks/<id> changes only the supplied fields of the
\* drink with that id: without 'title' in the body the title stays, without
\* 'recipe' the recipe stays, a supplied non-empty field takes the supplied
\* value, the drink keeps its id, and every other drink is unchanged.
C4_PatchChangesOnlySupplied ==
    (Is("PATCH", "/drinks/<id>") /\ response.status = 200)
    => LET id == request.drink_id
           body == request.body[1]
       IN /\ id \in DOMAIN drinks_before
          /\ DOMAIN drinks = DOMAIN drinks_before
          /\ OthersUnchanged(id)
          /\ Len(response.drinks[1]) = 1
          /\ response.drinks[1][1].id = id
          /\ body.title = None => drinks[id].title = drinks_before[id].title
          /\ body.recipe = None => drinks[id].recipe = drinks_before[id].recipe
          /\ truthy_title(body.title) => drinks[id].title = body.title[1]
          /\ truthy_recipe(body.recipe)
             => response.drinks[1][1].recipe = body.recipe[1]

C4_Witness ==
    /\ Is("PATCH", "/drinks/<id>")
    /\ response.status = 200
    /\ Cardinality(DOMAIN drinks_before) = 2
    /\ request.body[1].recipe = None
    /\ request.body[1].title # None
    /\ drinks[request.drink_id].title # drinks_before[request.drink_id].title
    /\ Len(json_loads(drinks[request.drink_id].recipe)) = 2

\* C5: a protected endpoint acts on the table only for a caller whose token
\* carries its permission; any other caller (no token, an invalid token, a
\* token without the permission) gets 401 or 403 with success False, no data,
\* and the table unchanged; GET /drinks answers 200 whatever the token.
C5_PermissionGatesEndpoint ==
    /\ (RequiredPermission # "" /\ ~Holds(RequiredPermission))
       => /\ response.status \in {401, 403}
          /\ response.success = PyBool(FALSE)
          /\ response.drinks = None
          /\ response.delete = None
          /\ drinks = drinks_before
    /\ (RequiredPermission # "" /\ response.status \notin {401, 403})
       => Holds(RequiredPermission)
    /\ drinks # drinks_before => Holds(RequiredPermission)
    /\ Is("GET", "/drinks") => response.status = 200 /\ response.drinks # None

C5_Witness ==
    /\ Is("DELETE", "/drinks/<id>")
    /\ request.token = ValidToken({"get:drinks-detail"})
    /\ request.drink_id \in DOMAIN drinks_before
    /\ response.status = 403

\* C6: in every state of the table no two drinks share a title and no title
\* is empty; a POST /drinks (by a caller holding 'post:drinks') whose title
\* is an existing drink's, and a PATCH /drinks/<id> (by a caller holding
\* 'patch:drinks') whose title is another drink's, are answered 422 and leave
\* the table unchanged.
C6_TitlesUniqueAndNonEmpty ==
    /\ \A a, b \in DOMAIN drinks : a # b => drinks[a].title # drinks[b].title
    /\ \A a \in DOMAIN drinks : drinks[a].title # ""
    /\ (Is("POST", "/drinks") /\ Holds("post:drinks") /\ request.body # None)
       => LET title == request.body[1].title
          IN (title # None /\ title[1] \in TitlesOf(drinks_before))
             => response.status = 422 /\ drinks = drinks_before
    /\ (Is("PATCH", "/drinks/<id>") /\ Holds("patch:drinks") /\ request.body # None)
       => LET title == request.body[1].title
          IN (title # None
                /\ \E other \in DOMAIN drinks_before \ {request.drink_id} :
                      drinks_before[other].title = title[1])
             => response.status = 422 /\ drinks = drinks_before

C6_Witness ==
    /\ Is("PATCH", "/drinks/<id>")
    /\ Holds("patch:drinks")
    /\ request.drink_id \in DOMAIN drinks_before
    /\ request.body # None
    /\ request.body[1].title # None
    /\ \E other \in DOMAIN drinks_before \ {request.drink_id} :
          drinks_before[other].title = request.body[1].title[1]
    /\ response.status = 422

C8_DeleteRemovesExactlyOne ==
    /\ (Is("DELETE", "/drinks/<id>") /\ Holds("delete:drinks")
          /\ request.drink_id \in DOMAIN drinks_before)
       => response.status = 200
    /\ (Is("DELETE", "/drinks/<id>") /\ response.status = 200)
       => LET id == request.drink_id
          IN /\ id \in DOMAIN drinks_before
             /\ DOMAIN drinks = DOMAIN drinks_before \ {id}
             /\ OthersUnchanged(id)
             /\ response.success = PyBool(TRUE)
             /\ response.delete = Some(id)
             /\ \A i \in 1..Len(ListedIds(Listing(drinks))) :
                   ListedIds(Listing(drinks))[i] # id
             /\ \A i \in 1..Len(ListedIds(DetailListing(drinks))) :
                   ListedIds(DetailListing(drinks))[i] # id
    /\ (DOMAIN drinks \ DOMAIN drinks_before # {})
       => Is("POST", "/drinks") /\ response.status = 200

C8_Witness ==
    /\ Is("DELETE", "/drinks/<id>")
    /\ response.status = 200
    /\ Cardinality(DOMAIN drinks_before) = 3
    /\ request.drink_id = 2

\* C9: every successful response of the five endpoints has 'success' the
\* boolean True, and every error response (422, 404, authorization error) has
\* 'success' False and 'error' equal to the status returned.
C9_SuccessEnvelope ==
    /\ response.status = 200 => response.success = PyBool(TRUE)
    /\ response.status \in {401, 403, 404, 422}
       => response.success = PyBool(FALSE) /\ response.error = Some(response.status)

\* C10: GET /drinks and GET /drinks-detail leave the table unchanged; each
\* lists every drink of the table exactly once, in ascending order of id, so
\* both list the same sequence of ids.
C10_ListingsAgree ==
    /\ request.method = "GET" => drinks = drinks_before
    /\ (request.method = "GET" /\ response.status = 200)
       => /\ response.drinks # None
          /\ ListsTable(ListedIds(response), drinks)
          /\ \A i \in 1..Len(response.drinks[1]) :
                response.drinks[1][i].title = drinks[ListedIds(response)[i]].title
    /\ ListsTable(ListedIds(Listing(drinks)), drinks)
    /\ ListedIds(Listing(drinks)) = ListedIds(DetailListing(drinks))

C10_Witness ==
    /\ Is("GET", "/drinks-detail")
    /\ response.status = 200
    /\ DOMAIN drinks = {1, 3}

====
